---- MODULE Spec2Model ----
(***************************************************************************)
(* Model of src/app_transform.py: the batch pipeline that, for every input *)
(* path, plans a resize (resize_type), builds a canvas and a centred       *)
(* placement rectangle (add_pip_vars), and resizes, pastes and writes the  *)
(* result (process_image).                                                 *)
(*                                                                         *)
(* Python floats are IEEE-754 doubles.  A double that is the quotient of   *)
(* two small integers is kept as the pair of integers it was computed      *)
(* from; the operators FloatTruncDiv and FloatTruncMul below compute, in   *)
(* exact integer arithmetic, what int(a / r) and int(a * r) deliver when r *)
(* is that rounded double (round-to-nearest-even, 53-bit significand).     *)
(***************************************************************************)
EXTENDS Integers, Sequences, FiniteSets, TLC

\* ------------------------------------------------------------------------
\* Bounds of the model (not program constants)
\* ------------------------------------------------------------------------
MaxFiles == 2
MaxSmallDim == 2

\* ------------------------------------------------------------------------
\* Program constants (src/app_transform.py:22-24, 90)
\* ------------------------------------------------------------------------
\* ig_defined_res = (1920, 1080): (height, width)
ig_defined_res == <<1920, 1080>>
\* screen_factor = .75, an exact dyadic double, kept as num/den
screen_factor == [num |-> 3, den |-> 4]
scale_tolerance == 2
\* fill_value=128 of the canvas
fill_value == 128

\* ------------------------------------------------------------------------
\* IEEE-754 double arithmetic on quotients of small integers
\* ------------------------------------------------------------------------
RECURSIVE Pow2(_)
Pow2(n) == IF n <= 0 THEN 1 ELSE 2 * Pow2(n - 1)

RECURSIVE ExpUp(_, _, _)
\* largest e >= 0 with h * 2^e <= w   (for w >= h)
ExpUp(w, h, e) == IF h * Pow2(e + 1) <= w THEN ExpUp(w, h, e + 1) ELSE e

RECURSIVE ExpDown(_, _, _)
\* smallest t >= 1 with w * 2^t >= h  (for w < h)
ExpDown(w, h, t) == IF w * Pow2(t) >= h THEN t ELSE ExpDown(w, h, t + 1)

\* binary exponent e of the real w/h: 2^e <= w/h < 2^(e+1)
RatioExponent(w, h) == IF w >= h THEN ExpUp(w, h, 0) ELSE 0 - ExpDown(w, h, 1)

\* binary exponent e of the binade just below the integer n >= 1:
\* 2^e < n <= 2^(e+1); the doubles just below n are spaced 2^(e-52) apart
RECURSIVE BelowExponent(_, _)
BelowExponent(n, e) == IF Pow2(e + 1) < n THEN BelowExponent(n, e + 1) ELSE e

RECURSIVE DoubleMod(_, _, _)
\* (r * 2^k) mod h, sixteen doublings at a time (r < h < 2^15)
DoubleMod(r, h, k) ==
    IF k <= 16 THEN (r * Pow2(k)) % h ELSE DoubleMod((r * 65536) % h, h, k - 16)

\* float(w) / float(h): the double m / 2^k nearest to w/h, 2^52 <= m < 2^53.
\* The double is kept as [num, den, k, rho] with rho = m*h - w*2^k, the
\* signed rounding residue (|rho| <= h/2), so that its exact value is
\* (w * 2^k + rho) / (h * 2^k).
FloatDiv(w, h) ==
    LET k   == 52 - RatioExponent(w, h)
        rem == DoubleMod(w % h, h, k)
    IN  [num |-> w, den |-> h, k |-> k,
         rho |-> IF 2 * rem < h THEN 0 - rem ELSE h - rem]

\* int(float(a) / r) for the double r = FloatDiv(w, h).
\* With n = a*h/w the exact quotient: when w does not divide a*h the double
\* quotient has the same integer part as n (a*h < 2^52).  When n is an
\* integer and r was rounded up (rho > 0), a/r lies below n and the quotient
\* rounds to a double below n exactly when a/r < n - 2^(-s), s = 53 - e,
\* i.e. when  w * 2^k + rho < n * rho * 2^s.
FloatTruncDiv(a, r) ==
    LET n == (a * r.den) \div r.num
        s == 53 - BelowExponent(n, 0 - 1)
        d == IF r.k < s THEN r.k ELSE s
    IN  IF (a * r.den) % r.num # 0 \/ r.rho <= 0 THEN n
        ELSE IF r.num * Pow2(r.k - d) < n * r.rho * Pow2(s - d)
             THEN n - 1 ELSE n

\* int(float(a) * r) for the double r = FloatDiv(w, h).
\* With n = a*w/h the exact product: when h does not divide a*w the double
\* product has the same integer part as n.  When n is an integer and r was
\* rounded down (rho < 0), a*r lies below n and rounds to a double below n
\* exactly when  n * (-rho) * 2^s > w * 2^k.
FloatTruncMul(a, r) ==
    LET n == (a * r.num) \div r.den
        s == 53 - BelowExponent(n, 0 - 1)
        d == IF r.k < s THEN r.k ELSE s
    IN  IF (a * r.num) % r.den # 0 \/ r.rho >= 0 THEN n
        ELSE IF n * (0 - r.rho) * Pow2(s - d) > r.num * Pow2(r.k - d)
             THEN n - 1 ELSE n

\* int(x / 2) on a float x: truncation toward zero
TruncHalf(x) == IF x >= 0 THEN x \div 2 ELSE 0 - ((0 - x) \div 2)

\* ------------------------------------------------------------------------
\* Inputs: command-line arguments and the images found at the input paths
\* ------------------------------------------------------------------------
\* natural heights and widths of the images an input path may hold
SpecialDims == {7, 20, 270, 271, 500, 809, 810, 1920, 1921}
Dims == (1 .. MaxSmallDim) \cup SpecialDims

\* what cv2.imread finds at a path: a decoded image of shape (height, width)
\* or nothing (imread then returns None)
NoImage == [ok |-> FALSE, shape |-> <<0, 0>>]
Files == {NoImage} \cup {[ok |-> TRUE, shape |-> <<h, w>>] : h \in Dims, w \in Dims}

\* args.execution_date after valid_date: a datetime (year, month, day, hour, minute)
Dates == {[Y |-> 2024, m |-> 3, d |-> 1, H |-> 9, M |-> 30],
          [Y |-> 2023, m |-> 12, d |-> 31, H |-> 23, M |-> 5]}

\* screen-fit factors in (0,1] that are exact doubles
Factors == {[num |-> q, den |-> 4] : q \in 1 .. 4}

VARIABLES
    config,          \* module globals passed to resize_type: defined_res, screen_factor, scale_tolerance
    execution_date,  \* args.execution_date
    npaths,          \* len(args.meme_absolute_file_paths)
    i,               \* loop index of __main__
    pc,              \* next stage of the loop: "resize_type", "add_pip_vars", "process_image", "done", "raised"
    img_vars,        \* the module-level dictionary img_vars
    written,         \* files written by cv2.imwrite, in order
    error,           \* the uncaught exception that ended the run, or "none"
    loads,           \* history: result of every cv2.imread call so far
    candidate,       \* history: which candidate the last resize_type kept
    assigned_in      \* history: for every key of img_vars, the pass that last assigned it

vars == <<config, execution_date, npaths, i, pc, img_vars, written, error,
          loads, candidate, assigned_in>>

\* ------------------------------------------------------------------------
\* Python dictionaries
\* ------------------------------------------------------------------------
EmptyDict == [k \in {} |-> 0]

\* d[k] = new[k] for every key of new
DictUpdate(d, new) ==
    [k \in (DOMAIN d) \cup (DOMAIN new) |-> IF k \in DOMAIN new THEN new[k] ELSE d[k]]

Stamp(d, keys, pass) == DictUpdate(d, [k \in keys |-> pass])

\* ------------------------------------------------------------------------
\* resize_type (src/app_transform.py:29-79)
\* ------------------------------------------------------------------------
\* variant of ScaleByFactor: the factor divides instead of multiplying
ScaleByFactorInverted(sf, x) == (sf.den * x) \div sf.num

\* int(screen_factor * float(x)); exact, screen_factor being dyadic
ScaleByFactor(sf, x) == (sf.num * x) \div sf.den

\* variant of FitsHeight: the width-derived candidate is never rejected
FitsHeightAlways(proposed_height, defined_res) == TRUE

\* variant of FitsHeight: < in place of <=
FitsHeightStrict(proposed_height, defined_res) == proposed_height < defined_res[1]

\* if proposed_height <= defined_res[0]
FitsHeight(proposed_height, defined_res) == proposed_height <= defined_res[1]

\* the proposed (height, width) and the candidate that produced it
ProposedRes(img_res, defined_res, sf) ==
    LET ratio  == FloatDiv(img_res[2], img_res[1])
        widthA == ScaleByFactor(sf, defined_res[2])
        heightA == FloatTruncDiv(widthA, ratio)
        heightB == ScaleByFactor(sf, defined_res[1])
        widthB == FloatTruncMul(heightB, ratio)
    IN  IF FitsHeight(heightA, defined_res)
        THEN [res |-> <<heightA, widthA>>, candidate |-> "width"]
        ELSE [res |-> <<heightB, widthB>>, candidate |-> "height"]

ResizeDir(proposed_res, img_res) ==
    IF proposed_res[2] <= img_res[2] THEN "shrink" ELSE "scale"

\* int(float(proposed_width) / float(natural_width)): the quotient of two
\* integers below 2^31 is correctly rounded, its integer part is exact
ResizeFactor(proposed_res, img_res) == proposed_res[2] \div img_res[2]

\* variant of ResizeValidity: < in place of <=
ResizeValidityStrict(dir, factor, tolerance) ==
    IF dir = "scale"
    THEN (IF factor < tolerance THEN "True" ELSE "False")
    ELSE "None"

\* True / False / None of img_vars['resize_validity']
ResizeValidity(dir, factor, tolerance) ==
    IF dir = "scale"
    THEN (IF factor <= tolerance THEN "True" ELSE "False")
    ELSE "None"

\* cv2.imread(file_path): the pixels of the file at position path, or None
ImageObject(path, img) == [path |-> path, shape |-> img.shape, decoded |-> img.ok]

\* the entries resize_type assigns after img_obj, for a decoded image
PlannedFields(shape, cfg) ==
    LET img_res == shape
        proposed == ProposedRes(img_res, cfg.defined_res, cfg.screen_factor).res
        dir == ResizeDir(proposed, img_res)
        factor == ResizeFactor(proposed, img_res)
    IN  [img_res |-> img_res,
         img_aspect_ratio |-> [num |-> img_res[2], den |-> img_res[1]],
         defined_res |-> cfg.defined_res,
         screen_factor |-> cfg.screen_factor,
         proposed_res |-> proposed,
         proposed_resize_dir |-> dir,
         scale_tolerance |-> cfg.scale_tolerance,
         proposed_resize_factor |-> factor,
         resize_validity |-> ResizeValidity(dir, factor, cfg.scale_tolerance)]

\* the configurations resize_type is called with
Configs == {[defined_res |-> ig_defined_res, screen_factor |-> f,
             scale_tolerance |-> scale_tolerance] : f \in Factors}

\* PlannedFields and the kept candidate, tabulated once over the
\* configurations and the image shapes of the model
PlanCache ==
    [cfg \in Configs |-> [h \in Dims |-> [w \in Dims |->
        [fields |-> PlannedFields(<<h, w>>, cfg),
         candidate |-> ProposedRes(<<h, w>>, cfg.defined_res, cfg.screen_factor).candidate]]]]

\* variant of Raise: the failing file is skipped and the batch goes on
RaiseAndContinue(kind) ==
    /\ pc' = IF i + 1 < npaths THEN "resize_type" ELSE "done"
    /\ error' = kind
    /\ i' = i + 1
    /\ written' = written

\* an exception nobody catches ends the run (no try/except in __main__)
Raise(kind) ==
    /\ pc' = "raised"
    /\ error' = kind
    /\ UNCHANGED <<i, written>>

resize_type ==
    /\ pc = "resize_type"
    /\ \E img \in Files :
         LET plan == PlanCache[config][img.shape[1]][img.shape[2]]
         IN  /\ loads' = Append(loads, img.ok)
             /\ IF ~img.ok
                THEN \* img_vars['img_obj'] = None, then None.shape raises
                     /\ img_vars' = DictUpdate(img_vars, [img_obj |-> ImageObject(i, img)])
                     /\ assigned_in' = Stamp(assigned_in, {"img_obj"}, i)
                     /\ candidate' = candidate
                     /\ Raise("AttributeError")
                ELSE /\ img_vars' = DictUpdate(DictUpdate(img_vars,
                            [img_obj |-> ImageObject(i, img)]), plan.fields)
                     /\ assigned_in' = Stamp(assigned_in,
                            {"img_obj"} \cup DOMAIN plan.fields, i)
                     /\ candidate' = plan.candidate
                     /\ pc' = "add_pip_vars"
                     /\ UNCHANGED <<i, written, error>>
    /\ UNCHANGED <<config, execution_date, npaths>>

\* ------------------------------------------------------------------------
\* add_pip_vars (src/app_transform.py:81-100)
\* ------------------------------------------------------------------------
\* variant of Canvas: the canvas of the previous pass is kept when there is one
CanvasKept(v) ==
    IF "canvas" \in DOMAIN v THEN v.canvas
    ELSE [shape |-> <<v.defined_res[1], v.defined_res[2], 3>>,
          fill |-> fill_value,
          pasted |-> {}]

\* np.full(shape=(height, width, 3), fill_value=128): a new array each call;
\* pasted is the set of regions overwritten since the allocation
Canvas(v) ==
    [shape |-> <<v.defined_res[1], v.defined_res[2], 3>>,
     fill |-> fill_value,
     pasted |-> {}]

PipCoords(defined_res, proposed_res) ==
    LET y1 == TruncHalf(defined_res[1] - proposed_res[1])
        x1 == TruncHalf(defined_res[2] - proposed_res[2])
    IN  [x1 |-> x1, x2 |-> x1 + proposed_res[2],
         y1 |-> y1, y2 |-> y1 + proposed_res[1]]

add_pip_vars ==
    /\ pc = "add_pip_vars"
    /\ img_vars' = DictUpdate(img_vars,
           [canvas |-> Canvas(img_vars),
            pip_coords |-> PipCoords(img_vars.defined_res, img_vars.proposed_res)])
    /\ assigned_in' = Stamp(assigned_in, {"canvas", "pip_coords"}, i)
    /\ pc' = "process_image"
    /\ UNCHANGED <<config, execution_date, npaths, i, written, error, loads, candidate>>

\* ------------------------------------------------------------------------
\* process_image (src/app_transform.py:102-127)
\* ------------------------------------------------------------------------
\* variant of ResizeOK: an enlargement flagged out of tolerance is rejected
ResizeOKValidOnly(v) ==
    v.proposed_res[1] > 0 /\ v.proposed_res[2] > 0 /\ v.resize_validity # "False"

\* cv2.resize raises on an empty destination size
ResizeOK(v) == v.proposed_res[1] > 0 /\ v.proposed_res[2] > 0

\* length of the slice a[start:stop] of an axis of length len
SliceLen(start, stop, len) ==
    LET Norm(x) == IF x < 0 THEN (IF x + len < 0 THEN 0 ELSE x + len)
                   ELSE (IF x > len THEN len ELSE x)
    IN  IF Norm(stop) > Norm(start) THEN Norm(stop) - Norm(start) ELSE 0

\* canvas[y1:y2, x1:x2] = resized_img: the resized image must broadcast to
\* the shape of the slice
PasteOK(v) ==
    LET rows == SliceLen(v.pip_coords.y1, v.pip_coords.y2, v.canvas.shape[1])
        cols == SliceLen(v.pip_coords.x1, v.pip_coords.x2, v.canvas.shape[2])
    IN  /\ (v.proposed_res[1] = rows \/ v.proposed_res[1] = 1)
        /\ (v.proposed_res[2] = cols \/ v.proposed_res[2] = 1)

Digit(n) == <<"0", "1", "2", "3", "4", "5", "6", "7", "8", "9">>[n + 1]

RECURSIVE ZeroPad(_, _)
\* decimal digits of n, zero-padded to width
ZeroPad(n, width) ==
    IF width = 0 THEN << >> ELSE Append(ZeroPad(n \div 10, width - 1), Digit(n % 10))

RECURSIVE Str(_)
\* str(n) for n >= 0
Str(n) == IF n < 10 THEN <<Digit(n)>> ELSE Append(Str(n \div 10), Digit(n % 10))

\* variant of FileDest: one-based index
FileDestOneBased(exec_datetime, iter) ==
    ZeroPad(exec_datetime.Y, 4) \o ZeroPad(exec_datetime.m, 2) \o ZeroPad(exec_datetime.d, 2)
    \o <<"_">> \o ZeroPad(exec_datetime.H, 2) \o ZeroPad(exec_datetime.M, 2)
    \o <<"_">> \o Str(iter + 1) \o <<".", "j", "p", "g">>

\* "{0}_{1}_{2}{3}".format(strftime("%Y%m%d"), strftime("%H%M"), str(iter), ".jpg"),
\* the name of the file inside output_dir, as a sequence of characters
FileDest(exec_datetime, iter) ==
    ZeroPad(exec_datetime.Y, 4) \o ZeroPad(exec_datetime.m, 2) \o ZeroPad(exec_datetime.d, 2)
    \o <<"_">> \o ZeroPad(exec_datetime.H, 2) \o ZeroPad(exec_datetime.M, 2)
    \o <<"_">> \o Str(iter) \o <<".", "j", "p", "g">>

\* the canvas after the paste; processed_img is the canvas itself, not a copy
\* (cv2.imwrite then writes it; output_dir is taken to be writable)
Pasted(v) ==
    [v.canvas EXCEPT !.pasted = @ \cup {[src |-> v.img_obj.path, rect |-> v.pip_coords]}]

process_image ==
    /\ pc = "process_image"
    /\ IF ~ResizeOK(img_vars)
       THEN /\ Raise("cv2.error")
            /\ UNCHANGED img_vars
       ELSE IF ~PasteOK(img_vars)
       THEN /\ Raise("ValueError")
            /\ UNCHANGED img_vars
       ELSE /\ img_vars' = DictUpdate(img_vars, [canvas |-> Pasted(img_vars)])
            /\ written' = Append(written,
                   [file_dest |-> FileDest(execution_date, i),
                    shape |-> img_vars.canvas.shape,
                    srcs |-> {p.src : p \in Pasted(img_vars).pasted}])
            /\ i' = i + 1
            /\ pc' = IF i + 1 < npaths THEN "resize_type" ELSE "done"
            /\ error' = error
    /\ UNCHANGED <<config, execution_date, npaths, loads, candidate, assigned_in>>

\* ------------------------------------------------------------------------
\* Specifications
\* ------------------------------------------------------------------------
InitCommon ==
    /\ i = 0
    /\ pc = "resize_type"
    /\ img_vars = EmptyDict
    /\ written = << >>
    /\ error = "none"
    /\ loads = << >>
    /\ candidate = "none"
    /\ assigned_in = EmptyDict

\* the program as configured
Init ==
    /\ config = [defined_res |-> ig_defined_res, screen_factor |-> screen_factor,
                 scale_tolerance |-> scale_tolerance]
    /\ execution_date \in Dates
    /\ npaths \in 1 .. MaxFiles
    /\ InitCommon

\* the three functions applied once, to one input, under every screen-fit
\* factor of Factors
InitPlanner ==
    /\ config \in Configs
    /\ execution_date \in Dates
    /\ npaths = 1
    /\ InitCommon

Next == resize_type \/ add_pip_vars \/ process_image

Spec == Init /\ [][Next]_vars

SpecPlanner == InitPlanner /\ [][Next]_vars

\* ------------------------------------------------------------------------
\* Properties
\* ------------------------------------------------------------------------
\* natural and proposed sizes of the image of the current record
NatH == img_vars.img_res[1]
NatW == img_vars.img_res[2]
PropH == img_vars.proposed_res[1]
PropW == img_vars.proposed_res[2]
TargetH == img_vars.defined_res[1]
TargetW == img_vars.defined_res[2]

\* resize_type has just returned for a decoded image
Planned == pc = "add_pip_vars"

\* the file expected for the input at zero-based position j (j < 10):
\* YYYYMMDD_HHMM_j.jpg from execution_date, a canvas of the target
\* resolution holding the pixels of input j only
ExpectedOutput(j) ==
    LET t == execution_date
    IN  [file_dest |->
            <<Digit(t.Y \div 1000), Digit((t.Y \div 100) % 10), Digit((t.Y \div 10) % 10),
              Digit(t.Y % 10), Digit(t.m \div 10), Digit(t.m % 10),
              Digit(t.d \div 10), Digit(t.d % 10), "_",
              Digit(t.H \div 10), Digit(t.H % 10), Digit(t.M \div 10), Digit(t.M % 10),
              "_", Digit(j), ".", "j", "p", "g">>,
         shape |-> <<ig_defined_res[1], ig_defined_res[2], 3>>,
         srcs |-> {j}]

\* C1: whatever the image and the screen-fit factor in (0,1], the proposed
\* size returned by resize_type has proposed_width <= W or proposed_height <= H.
C1_OneAxisFits ==
    "proposed_res" \in DOMAIN img_vars => (PropW <= TargetW \/ PropH <= TargetH)

\* a plan that had to be recomputed from the height
C1_Witness == Planned /\ candidate = "height" /\ PropH <= TargetH

\* C2: when every input of a batch of N paths is processed, exactly N files
\* have been written, the j-th of them for input j and named
\* YYYYMMDD_HHMM_j.jpg with the date and time of execution_date.
C2_OneFilePerInput ==
    pc = "done" =>
        /\ Len(written) = npaths
        /\ \A j \in 0 .. npaths - 1 : written[j + 1] = ExpectedOutput(j)

C2_Witness == pc = "done" /\ npaths >= 2 /\ Len(written) = npaths

\* C3: once the image at position k failed to load, the run has ended with
\* the exception, the files of positions 0..k-1 are the files written, and
\* no file is written for position k or a later one.
C3_LoadFailureIsFatal ==
    \A k \in 1 .. Len(loads) :
        ~loads[k] =>
            /\ pc = "raised"
            /\ error = "AttributeError"
            /\ Len(written) = k - 1
            /\ \A j \in 1 .. k - 1 : written[j].srcs = {j - 1}

\* a load that fails after an earlier input was written
C3_Witness ==
    /\ pc = "raised"
    /\ Len(loads) >= 2
    /\ ~loads[Len(loads)]
    /\ Len(written) = Len(loads) - 1

\* C4: when resize_type flagged the enlargement as out of tolerance
\* (resize_validity False), add_pip_vars and process_image still run without
\* an exception and process_image writes the file of that input, the same
\* file as for a valid input.
C4_InvalidStillWritten ==
    [][(pc \in {"add_pip_vars", "process_image"} /\ img_vars.resize_validity = "False") =>
          /\ pc' # "raised"
          /\ error' = "none"
          /\ pc = "add_pip_vars" => pc' = "process_image"
          /\ pc = "process_image" =>
                /\ Len(written') = Len(written) + 1
                /\ written'[Len(written')] = ExpectedOutput(i)]_vars

\* the file of an input flagged out of tolerance has been written
C4_Witness ==
    /\ Len(written) >= 1
    /\ pc \in {"resize_type", "done"}
    /\ img_vars.proposed_resize_dir = "scale"
    /\ img_vars.proposed_resize_factor > img_vars.scale_tolerance
    /\ img_vars.resize_validity = "False"

\* C5: after resize_type the validity flag is None exactly when
\* proposed_width <= natural_width (shrink); otherwise (enlarge) it is True
\* exactly when floor(proposed_width / natural_width) <= scale tolerance and
\* False otherwise.
C5_ValidityFlag ==
    Planned =>
        /\ (img_vars.resize_validity = "None") <=> (PropW <= NatW)
        /\ (img_vars.proposed_resize_dir = "shrink") <=> (PropW <= NatW)
        /\ PropW > NatW =>
              /\ img_vars.proposed_resize_dir = "scale"
              /\ (img_vars.resize_validity = "True")
                     <=> (PropW \div NatW <= img_vars.scale_tolerance)
              /\ (img_vars.resize_validity = "False")
                     <=> (PropW \div NatW > img_vars.scale_tolerance)

\* an enlargement by exactly the tolerance, flagged valid
C5_Witness ==
    /\ Planned
    /\ PropW > NatW
    /\ PropW \div NatW = img_vars.scale_tolerance
    /\ img_vars.resize_validity = "True"

\* natural width equal to the width-derived candidate width int(factor * W)
WidthIsCandidateWidth ==
    NatW = (img_vars.screen_factor.num * TargetW) \div img_vars.screen_factor.den

\* C6 as stated: an image whose natural width equals factor x W has the
\* width-derived candidate accepted and proposed_height equal to H.
C6_Original ==
    (Planned /\ WidthIsCandidateWidth) => (candidate = "width" /\ PropH = TargetH)

\* C6 as amended: an image whose natural width equals factor x W and whose
\* natural height is at most H has the width-derived candidate accepted, and
\* proposed_height is the natural height or, by the truncation of the double
\* quotient, one less.
C6_Amended ==
    (Planned /\ WidthIsCandidateWidth /\ NatH <= TargetH) =>
        /\ candidate = "width"
        /\ PropW = NatW
        /\ PropH \in {NatH - 1, NatH}

\* the candidate height lost one pixel to the rounding of the aspect ratio
C6_Witness ==
    /\ Planned
    /\ WidthIsCandidateWidth
    /\ NatH <= TargetH
    /\ candidate = "width"
    /\ PropH = NatH - 1

\* C7: when process_image is about to run for input i, the entries of
\* img_vars it reads (img_obj, proposed_res, canvas, pip_coords) were all
\* assigned during pass i from input i and the canvas holds no pasted pixels;
\* every file written holds the pixels of its own input only.
C7_FreshRecord ==
    /\ pc = "process_image" =>
          /\ \A key \in {"img_obj", "proposed_res", "canvas", "pip_coords"} :
                assigned_in[key] = i
          /\ img_vars.img_obj.path = i
          /\ img_vars.img_obj.shape = img_vars.img_res
          /\ img_vars.canvas.pasted = {}
    /\ \A j \in 1 .. Len(written) : written[j].srcs = {j - 1}

\* a later pass, with the record of an earlier pass behind it
C7_Witness == pc = "process_image" /\ i >= 1 /\ Len(written) = i

\* C8 as stated: the direction decided on the widths is the direction the
\* heights would give: proposed_width <= natural_width exactly when
\* proposed_height <= natural_height.
C8_SameDirection ==
    Planned => ((PropW <= NatW) <=> (PropH <= NatH))

\* C9: whatever the image and the screen-fit factor in (0,1], the placement
\* rectangle of add_pip_vars lies inside the canvas:
\* 0 <= y1 <= y2 <= H and 0 <= x1 <= x2 <= W.
C9_RectInsideCanvas ==
    "pip_coords" \in DOMAIN img_vars =>
        LET c == img_vars.pip_coords
        IN  /\ 0 <= c.y1 /\ c.y1 <= c.y2 /\ c.y2 <= TargetH
            /\ 0 <= c.x1 /\ c.x1 <= c.x2 /\ c.x2 <= TargetW

\* the rectangle of an enlargement planned from the height
C9_Witness ==
    /\ pc = "process_image"
    /\ img_vars.proposed_resize_dir = "scale"
    /\ candidate = "height"
    /\ img_vars.pip_coords.y2 - img_vars.pip_coords.y1 = PropH

\* C10 as stated: for every decoded image the proposed width and height are
\* both >= 1, so that cv2.resize never fails on an empty size.
C10_NonEmptyTarget ==
    /\ "proposed_res" \in DOMAIN img_vars => (PropH >= 1 /\ PropW >= 1)
    /\ error # "cv2.error"

====
